---- MODULE Spec2Model ----
(***************************************************************************)
(* Model of the PR review-assignment service: the use cases of            *)
(* internal/usecase (CreatePR, MergePR, ReassignReviewer, DeactivateTeam), *)
(* the HTTP handlers that call them or the repositories directly          *)
(* (teamAdd, usersSetIsActive, usersGetReview), GetStats and the Postgres  *)
(* repositories they use.                                                  *)
(* Every handler is a sequence of storage round trips; requests are        *)
(* served concurrently, so the round trips of different requests           *)
(* interleave.  Each storage statement is atomic.                          *)
(***************************************************************************)
EXTENDS Integers, Sequences, FiniteSets, TLC

\* ------------------------------------------------------------------ universe
UserIds   == {"u1", "u2", "u3", "u4"}
TeamNames == {"t1", "t2"}
PRIds     == {"pr1"}
Procs     == {"p1", "p2"}

\* time.Now() is read at most MaxClock times in a behaviour
MaxClock == 3

\* at most MaxRequests requests are accepted in a behaviour
MaxRequests == 4

\* HTTP status codes written by the handlers
StatusOK                  == 200
StatusCreated             == 201
StatusBadRequest          == 400
StatusNotFound            == 404
StatusConflict            == 409
StatusInternalServerError == 500

\* number of reviewer slots filled by CreatePR
MaxReviewers == 2

VARIABLES
    users,   \* table users: set of rows, primary key user_id
    teams,   \* table teams: set of team names
    prs,     \* table pull_requests: set of rows, primary key pull_request_id
    clock,   \* the last value time.Now() returned
    nreq,    \* the number of requests accepted so far
    pc,      \* pc[p]: the storage call request p performs next, or "idle"
    lv,      \* lv[p]: the local variables of the handler serving request p
    res,     \* the response written last: by which request, what it returned,
             \* and whether the request wrote to the database
    down     \* TRUE while the database executes no statement: every
             \* r.db.Query / QueryRow / Exec returns the driver's error

vars == <<users, teams, prs, clock, nreq, pc, lv, res, down>>

\* ------------------------------------------------------------------ entities
\* entity.User{} / entity.PullRequest{}: Go zero values
NoUser == [user_id |-> "", username |-> "", team_name |-> "", is_active |-> FALSE]
NoPR   == [pull_request_id |-> "", pull_request_name |-> "", author_id |-> "",
           status |-> "", assigned_reviewers |-> <<>>, created_at |-> 0,
           merged_at |-> 0]

PRStatusOpen   == "OPEN"
PRStatusMerged == "MERGED"

\* usecase and repository errors ("" is nil)
ErrNotFound      == "not found"
ErrPRExists      == "PR exists"
ErrPRMerged      == "PR_MERGED"
ErrNotAssigned   == "NOT_ASSIGNED"
ErrNoCandidate   == "NO_CANDIDATE"
\* the repository package has its own error values: a usecase.ErrNotFound
\* and a postgres.ErrNotFound are different values to ==
PgErrNotFound      == "postgres: not found"
PgErrAlreadyExists == "postgres: already exists"
\* the err of a statement the driver could not execute, returned as it is
PgErrExec == "postgres: statement failed"

\* ------------------------------------------------------------------ helpers
Range(s) == {s[i] : i \in DOMAIN s}

contains(slice, item) == \E i \in DOMAIN slice : slice[i] = item

NoDuplicates(s) == \A i, j \in DOMAIN s : i # j => s[i] # s[j]

\* every order in which a query without ORDER BY can return the rows S
RECURSIVE Orders(_)
Orders(S) ==
    IF S = {} THEN {<<>>}
    ELSE UNION {{<<x>> \o t : t \in Orders(S \ {x})} : x \in S}

\* ------------------------------------------------------------------ users repo
UserGetByID(id) ==
    IF down THEN [err |-> PgErrExec, user |-> NoUser]
    ELSE IF \E u \in users : u.user_id = id
    THEN [err |-> "", user |-> CHOOSE u \in users : u.user_id = id]
    ELSE [err |-> PgErrNotFound, user |-> NoUser]

\* the rows of a team; the query has no ORDER BY
UserListByTeam(teamName) == {u \in users : u.team_name = teamName}

\* the err of UserRepo.ListByTeam
UserListByTeamErr == IF down THEN PgErrExec ELSE ""

\* UPDATE users SET username, team_name, is_active WHERE user_id: its err and
\* the table afterwards; RowsAffected() = 0 is ErrNotFound
UserUpdate(u) ==
    IF down THEN [err |-> PgErrExec, rows |-> users]
    ELSE IF \E x \in users : x.user_id = u.user_id
    THEN [err |-> "",
          rows |-> {IF x.user_id = u.user_id THEN u ELSE x : x \in users}]
    ELSE [err |-> PgErrNotFound, rows |-> users]

\* ------------------------------------------------------------------ teams repo
\* SELECT ... FROM users WHERE team_name = $1: not found when no row matches
TeamGetByName(name) ==
    IF down THEN PgErrExec
    ELSE IF UserListByTeam(name) = {} THEN PgErrNotFound ELSE ""

\* the upserts of TeamRepo.Create: every member row is inserted, or
\* overwritten when the user_id exists (username, team_name and is_active
\* replaced)
UpsertMembers(teamName, members) ==
    {u \in users : \A m \in members : m.user_id # u.user_id}
    \cup {[user_id |-> m.user_id, username |-> m.username, team_name |-> teamName,
           is_active |-> m.is_active] : m \in members}

\* ------------------------------------------------------------------ pull_requests repo
PRGetByID(id) ==
    IF down THEN [err |-> PgErrExec, pr |-> NoPR]
    ELSE IF \E r \in prs : r.pull_request_id = id
    THEN [err |-> "", pr |-> CHOOSE r \in prs : r.pull_request_id = id]
    ELSE [err |-> PgErrNotFound, pr |-> NoPR]

PRRowExists(id) == \E r \in prs : r.pull_request_id = id

\* mutant of PRCreate: the table has no primary key
PRCreateNoKey(pr) == [err |-> "", rows |-> prs \cup {pr}]

\* INSERT INTO pull_requests: the primary key rejects a second row with the id
PRCreate(pr) ==
    IF down THEN [err |-> PgErrExec, rows |-> prs]
    ELSE IF PRRowExists(pr.pull_request_id)
    THEN [err |-> PgErrAlreadyExists, rows |-> prs]
    ELSE [err |-> "", rows |-> prs \cup {pr}]

\* mutant of PRUpdate: the statement has no WHERE clause
PRUpdateNoWhere(pr) ==
    IF down THEN [err |-> PgErrExec, rows |-> prs]
    ELSE IF PRRowExists(pr.pull_request_id)
    THEN [err |-> "",
          rows |-> {[pr EXCEPT !.pull_request_id = r.pull_request_id,
                               !.created_at = r.created_at] : r \in prs}]
    ELSE [err |-> PgErrNotFound, rows |-> prs]

\* UPDATE pull_requests SET pull_request_name, author_id, status,
\* assigned_reviewers, merged_at WHERE pull_request_id: every column but
\* created_at is overwritten
PRUpdate(pr) ==
    IF down THEN [err |-> PgErrExec, rows |-> prs]
    ELSE IF PRRowExists(pr.pull_request_id)
    THEN [err |-> "",
          rows |-> {IF r.pull_request_id = pr.pull_request_id
                    THEN [pr EXCEPT !.created_at = r.created_at]
                    ELSE r : r \in prs}]
    ELSE [err |-> PgErrNotFound, rows |-> prs]

\* the rows in s are in the order of ORDER BY created_at DESC
CreatedAtDesc(s) ==
    \A i, j \in DOMAIN s : i < j => s[i].created_at >= s[j].created_at

\* mutant of PRListByReviewer: rows that are MERGED are left out
PRListByReviewerOpenOnly(reviewerID) ==
    {s \in Orders({r \in prs : /\ contains(r.assigned_reviewers, reviewerID)
                                /\ r.status = PRStatusOpen}) :
        CreatedAtDesc(s)}

\* SELECT ... WHERE assigned_reviewers @> [reviewerID] ORDER BY created_at
\* DESC: every list the query can return, rows of one created_at coming in
\* any order
PRListByReviewer(reviewerID) ==
    {s \in Orders({r \in prs : contains(r.assigned_reviewers, reviewerID)}) :
        CreatedAtDesc(s)}

\* ------------------------------------------------------------------ use case helpers
\* mutant of PickReviewers: inactive members are picked too
RECURSIVE PickReviewersInactiveToo(_, _, _)
PickReviewersInactiveToo(teamMembers, authorID, reviewers) ==
    IF teamMembers = <<>> THEN reviewers
    ELSE LET member == Head(teamMembers) IN
         PickReviewersInactiveToo(Tail(teamMembers), authorID,
            IF member.user_id # authorID /\ Len(reviewers) < MaxReviewers
            THEN Append(reviewers, member.user_id)
            ELSE reviewers)

\* the loop of CreatePR: the first MaxReviewers active members that are not
\* the author, in the order the roster was returned
RECURSIVE PickReviewers(_, _, _)
PickReviewers(teamMembers, authorID, reviewers) ==
    IF teamMembers = <<>> THEN reviewers
    ELSE LET member == Head(teamMembers) IN
         PickReviewers(Tail(teamMembers), authorID,
            IF member.user_id # authorID /\ member.is_active
               /\ Len(reviewers) < MaxReviewers
            THEN Append(reviewers, member.user_id)
            ELSE reviewers)

\* the first loop of ReassignReviewer: the list without the first occurrence
\* of oldUserID
RemoveReviewer(reviewers, oldUserID) ==
    LET i == CHOOSE k \in DOMAIN reviewers :
                 /\ reviewers[k] = oldUserID
                 /\ \A j \in 1..(k - 1) : reviewers[j] # oldUserID
    IN  SubSeq(reviewers, 1, i - 1) \o SubSeq(reviewers, i + 1, Len(reviewers))

\* mutant of FirstCandidate: a member that is already assigned is a candidate
RECURSIVE FirstCandidateAssignedToo(_, _, _, _)
FirstCandidateAssignedToo(teamMembers, authorID, reviewers, oldUserID) ==
    IF teamMembers = <<>> THEN ""
    ELSE LET member == Head(teamMembers) IN
         IF /\ member.user_id # authorID
            /\ member.is_active
            /\ member.user_id # oldUserID
         THEN member.user_id
         ELSE FirstCandidateAssignedToo(Tail(teamMembers), authorID, reviewers, oldUserID)

\* mutant of FirstCandidate: the replaced reviewer is a candidate
RECURSIVE FirstCandidateOldToo(_, _, _, _)
FirstCandidateOldToo(teamMembers, authorID, reviewers, oldUserID) ==
    IF teamMembers = <<>> THEN ""
    ELSE LET member == Head(teamMembers) IN
         IF /\ member.user_id # authorID
            /\ member.is_active
            /\ ~contains(reviewers, member.user_id)
         THEN member.user_id
         ELSE FirstCandidateOldToo(Tail(teamMembers), authorID, reviewers, oldUserID)

\* mutant of FirstCandidate: an inactive member is a candidate
RECURSIVE FirstCandidateInactiveToo(_, _, _, _)
FirstCandidateInactiveToo(teamMembers, authorID, reviewers, oldUserID) ==
    IF teamMembers = <<>> THEN ""
    ELSE LET member == Head(teamMembers) IN
         IF /\ member.user_id # authorID
            /\ ~contains(reviewers, member.user_id)
            /\ member.user_id # oldUserID
         THEN member.user_id
         ELSE FirstCandidateInactiveToo(Tail(teamMembers), authorID, reviewers, oldUserID)

\* the second loop of ReassignReviewer: the first member that is not the
\* author, is active, is not assigned and is not oldUserID; "" when none
RECURSIVE FirstCandidate(_, _, _, _)
FirstCandidate(teamMembers, authorID, reviewers, oldUserID) ==
    IF teamMembers = <<>> THEN ""
    ELSE LET member == Head(teamMembers) IN
         IF /\ member.user_id # authorID
            /\ member.is_active
            /\ ~contains(reviewers, member.user_id)
            /\ member.user_id # oldUserID
         THEN member.user_id
         ELSE FirstCandidate(Tail(teamMembers), authorID, reviewers, oldUserID)

\* ------------------------------------------------------------------ requests
LvNone == [id |-> "", name |-> "", uid |-> "", team |-> "", flag |-> FALSE,
           members |-> {},
           pr |-> NoPR, user |-> NoUser, list |-> {}, repl |-> ""]

\* float64 0.0, and the stats map of a response that carries none; a response
\* that lists no pull requests has pull_requests <<>>
Float64Zero == [num |-> 0, den |-> 1, rounded |-> FALSE]

NoStats == [total_prs |-> 0, total_users |-> 0, open_prs |-> 0, merged_prs |-> 0,
            active_users |-> 0, average_reviewers |-> Float64Zero]

NoRes == [proc |-> "", wrote |-> FALSE, op |-> "", err |-> "", code |-> 0,
          pr |-> NoPR, replaced_by |-> "", stats |-> NoStats, pull_requests |-> <<>>]

\* the response of handler op serving the request whose locals are l
Response(op, l, err, code, pr, repl) ==
    [op |-> op, err |-> err, code |-> code, pr |-> pr, replaced_by |-> repl,
     stats |-> NoStats, pull_requests |-> <<>>]

\* the handler of request p returns r, having written nothing
Return(p, r) ==
    /\ pc'  = [pc EXCEPT ![p] = "idle"]
    /\ lv'  = [lv EXCEPT ![p] = LvNone]
    /\ res' = [proc |-> p, wrote |-> FALSE] @@ r

\* the handler of request p returns r after its write statement succeeded
Commit(p, r) ==
    /\ pc'  = [pc EXCEPT ![p] = "idle"]
    /\ lv'  = [lv EXCEPT ![p] = LvNone]
    /\ res' = [proc |-> p, wrote |-> TRUE] @@ r

\* the handler of request p goes on to the storage call at label with locals l
Goto(p, label, l) ==
    /\ pc' = [pc EXCEPT ![p] = label]
    /\ lv' = [lv EXCEPT ![p] = l]
    /\ UNCHANGED res

\* request p arrives: its handler starts
Accept(p) ==
    /\ pc[p] = "idle"
    /\ nreq < MaxRequests
    /\ nreq' = nreq + 1
    /\ UNCHANGED down

\* the handler of request p resumes at the storage call at label
Resume(p, label) ==
    /\ pc[p] = label
    /\ UNCHANGED <<nreq, down>>

\* ------------------------------------------------------------------ POST /pullRequest/create
pullRequestCreateStatus(err) ==
    CASE err = ""          -> StatusCreated
      [] err = ErrNotFound -> StatusNotFound
      [] err = ErrPRExists -> StatusConflict
      [] OTHER             -> StatusInternalServerError

CreateResponse(l, err, pr) ==
    Response("create", l, err, pullRequestCreateStatus(err), pr, "")

\* existing, err := uc.prRepo.GetByID(ctx, prID)
CreatePR_GetPR(p, prID, prName, authorID) ==
    /\ Accept(p)
    /\ LET l0 == [LvNone EXCEPT !.id = prID, !.name = prName, !.uid = authorID] IN
       /\ LET g == PRGetByID(l0.id) IN
          IF g.err = "" /\ g.pr.pull_request_id # ""
          THEN Return(p, CreateResponse(l0, ErrPRExists, NoPR))
          ELSE Goto(p, "create_getauthor", l0)
       /\ UNCHANGED <<users, teams, prs, clock>>

\* mutant of CreatePR_GetAuthor: the error of the author read is dropped
CreatePR_GetAuthorUnchecked(p) ==
    /\ Resume(p, "create_getauthor")
    /\ Goto(p, "create_list", [lv[p] EXCEPT !.user = UserGetByID(lv[p].uid).user])
    /\ UNCHANGED <<users, teams, prs, clock>>

\* author, err := uc.userRepo.GetByID(ctx, authorID)
CreatePR_GetAuthor(p) ==
    /\ Resume(p, "create_getauthor")
    /\ LET g == UserGetByID(lv[p].uid) IN
       IF g.err # ""
       THEN Return(p, CreateResponse(lv[p], ErrNotFound, NoPR))
       ELSE Goto(p, "create_list", [lv[p] EXCEPT !.user = g.user])
    /\ UNCHANGED <<users, teams, prs, clock>>

\* teamMembers, err := uc.userRepo.ListByTeam(ctx, author.TeamName), the loop
\* that picks the reviewers and the construction of pr with time.Now()
CreatePR_ListTeam(p) ==
    /\ Resume(p, "create_list")
    /\ IF UserListByTeamErr # ""
       THEN /\ Return(p, CreateResponse(lv[p], ErrNotFound, NoPR))
            /\ UNCHANGED clock
       ELSE /\ clock < MaxClock
            /\ \E teamMembers \in Orders(UserListByTeam(lv[p].user.team_name)) :
                 LET reviewers == PickReviewers(teamMembers, lv[p].uid, <<>>)
                     pr == [pull_request_id    |-> lv[p].id,
                            pull_request_name  |-> lv[p].name,
                            author_id          |-> lv[p].uid,
                            status             |-> PRStatusOpen,
                            assigned_reviewers |-> reviewers,
                            created_at         |-> clock + 1,
                            merged_at          |-> 0]
                 IN  Goto(p, "create_insert", [lv[p] EXCEPT !.pr = pr])
            /\ clock' = clock + 1
    /\ UNCHANGED <<users, teams, prs>>

\* err = uc.prRepo.Create(ctx, pr)
CreatePR_Insert(p) ==
    /\ Resume(p, "create_insert")
    /\ LET c == PRCreate(lv[p].pr) IN
       /\ prs' = c.rows
       /\ IF c.err # ""
          THEN Return(p, CreateResponse(lv[p], c.err, NoPR))
          ELSE Commit(p, CreateResponse(lv[p], "", lv[p].pr))
    /\ UNCHANGED <<users, teams, clock>>

\* ------------------------------------------------------------------ POST /pullRequest/merge
pullRequestMergeStatus(err) ==
    CASE err = ""          -> StatusOK
      [] err = ErrNotFound -> StatusNotFound
      [] OTHER             -> StatusInternalServerError

MergeResponse(l, err, pr) ==
    Response("merge", l, err, pullRequestMergeStatus(err), pr, "")

\* mutant of MergePR_Get: a MERGED pull request is stamped again
MergePR_GetRestamps(p, prID) ==
    /\ Accept(p)
    /\ LET l0 == [LvNone EXCEPT !.id = prID]
           g  == PRGetByID(prID)
       IN  IF g.err # ""
           THEN /\ Return(p, MergeResponse(l0, ErrNotFound, NoPR))
                /\ UNCHANGED clock
           ELSE /\ clock < MaxClock
                /\ clock' = clock + 1
                /\ Goto(p, "merge_update",
                        [l0 EXCEPT !.pr = [g.pr EXCEPT !.status = PRStatusMerged,
                                                       !.merged_at = clock + 1]])
    /\ UNCHANGED <<users, teams, prs>>

\* mutant of MergePR_Get: the local copy gets the status and no merged_at
MergePR_GetNoStamp(p, prID) ==
    /\ Accept(p)
    /\ LET l0 == [LvNone EXCEPT !.id = prID]
           g  == PRGetByID(prID)
       IN  IF g.err # ""
           THEN /\ Return(p, MergeResponse(l0, ErrNotFound, NoPR))
                /\ UNCHANGED clock
           ELSE IF g.pr.status = PRStatusMerged
           THEN /\ Return(p, MergeResponse(l0, "", g.pr))
                /\ UNCHANGED clock
           ELSE /\ clock < MaxClock
                /\ clock' = clock + 1
                /\ Goto(p, "merge_update",
                        [l0 EXCEPT !.pr = [g.pr EXCEPT !.status = PRStatusMerged]])
    /\ UNCHANGED <<users, teams, prs>>

\* pr, err := uc.prRepo.GetByID(ctx, prID), the MERGED check and the stamping
\* of the local copy with time.Now()
MergePR_Get(p, prID) ==
    /\ Accept(p)
    /\ LET l0 == [LvNone EXCEPT !.id = prID] IN
       /\ LET g == PRGetByID(l0.id) IN
          IF g.err # ""
          THEN /\ Return(p, MergeResponse(l0, ErrNotFound, NoPR))
               /\ UNCHANGED clock
          ELSE IF g.pr.status = PRStatusMerged
          THEN /\ Return(p, MergeResponse(l0, "", g.pr))
               /\ UNCHANGED clock
          ELSE /\ clock < MaxClock
               /\ clock' = clock + 1
               /\ Goto(p, "merge_update",
                       [l0 EXCEPT !.pr = [g.pr EXCEPT !.status = PRStatusMerged,
                                                         !.merged_at = clock + 1]])
       /\ UNCHANGED <<users, teams, prs>>

\* err = uc.prRepo.Update(ctx, pr)
MergePR_Update(p) ==
    /\ Resume(p, "merge_update")
    /\ LET u == PRUpdate(lv[p].pr) IN
       /\ prs' = u.rows
       /\ IF u.err # ""
          THEN Return(p, MergeResponse(lv[p], u.err, NoPR))
          ELSE Commit(p, MergeResponse(lv[p], "", lv[p].pr))
    /\ UNCHANGED <<users, teams, clock>>

\* ------------------------------------------------------------------ POST /pullRequest/reassign
pullRequestReassignStatus(err) ==
    CASE err = ""             -> StatusOK
      [] err = ErrNotFound    -> StatusNotFound
      [] err = ErrPRMerged    -> StatusConflict
      [] err = ErrNotAssigned -> StatusConflict
      [] err = ErrNoCandidate -> StatusConflict
      [] OTHER                -> StatusInternalServerError

ReassignResponse(l, err, pr, repl) ==
    Response("reassign", l, err, pullRequestReassignStatus(err), pr, repl)

\* mutant of ReassignReviewer_GetPR: the status is not checked
ReassignReviewer_GetPRAnyStatus(p, prID, oldUserID) ==
    /\ Accept(p)
    /\ LET l0 == [LvNone EXCEPT !.id = prID, !.uid = oldUserID]
           g  == PRGetByID(prID)
       IN  IF g.err # ""
           THEN Return(p, ReassignResponse(l0, ErrNotFound, NoPR, ""))
           ELSE IF ~contains(g.pr.assigned_reviewers, oldUserID)
           THEN Return(p, ReassignResponse(l0, ErrNotAssigned, NoPR, ""))
           ELSE Goto(p, "reassign_getauthor",
                     [l0 EXCEPT !.pr =
                         [g.pr EXCEPT !.assigned_reviewers =
                             RemoveReviewer(g.pr.assigned_reviewers, oldUserID)]])
    /\ UNCHANGED <<users, teams, prs, clock>>

\* mutant of ReassignReviewer_GetPR: a reviewer that is not assigned is
\* replaced too
ReassignReviewer_GetPRNotFound(p, prID, oldUserID) ==
    /\ Accept(p)
    /\ LET l0 == [LvNone EXCEPT !.id = prID, !.uid = oldUserID]
           g  == PRGetByID(prID)
       IN  IF g.err # ""
           THEN Return(p, ReassignResponse(l0, ErrNotFound, NoPR, ""))
           ELSE IF g.pr.status = PRStatusMerged
           THEN Return(p, ReassignResponse(l0, ErrPRMerged, NoPR, ""))
           ELSE Goto(p, "reassign_getauthor",
                     [l0 EXCEPT !.pr =
                         [g.pr EXCEPT !.assigned_reviewers =
                             IF contains(g.pr.assigned_reviewers, oldUserID)
                             THEN RemoveReviewer(g.pr.assigned_reviewers, oldUserID)
                             ELSE g.pr.assigned_reviewers]])
    /\ UNCHANGED <<users, teams, prs, clock>>

\* mutant of ReassignReviewer_GetPR: oldUserID is looked for before the
\* status is checked
ReassignReviewer_GetPRAssignedFirst(p, prID, oldUserID) ==
    /\ Accept(p)
    /\ LET l0 == [LvNone EXCEPT !.id = prID, !.uid = oldUserID]
           g  == PRGetByID(prID)
       IN  IF g.err # ""
           THEN Return(p, ReassignResponse(l0, ErrNotFound, NoPR, ""))
           ELSE IF ~contains(g.pr.assigned_reviewers, oldUserID)
           THEN Return(p, ReassignResponse(l0, ErrNotAssigned, NoPR, ""))
           ELSE IF g.pr.status = PRStatusMerged
           THEN Return(p, ReassignResponse(l0, ErrPRMerged, NoPR, ""))
           ELSE Goto(p, "reassign_getauthor",
                     [l0 EXCEPT !.pr =
                         [g.pr EXCEPT !.assigned_reviewers =
                             RemoveReviewer(g.pr.assigned_reviewers, oldUserID)]])
    /\ UNCHANGED <<users, teams, prs, clock>>

\* pr, err := uc.prRepo.GetByID(ctx, prID), the MERGED check and the removal
\* of oldUserID from the local copy
ReassignReviewer_GetPR(p, prID, oldUserID) ==
    /\ Accept(p)
    /\ LET l0 == [LvNone EXCEPT !.id = prID, !.uid = oldUserID] IN
       /\ LET g == PRGetByID(l0.id) IN
          IF g.err # ""
          THEN Return(p, ReassignResponse(l0, ErrNotFound, NoPR, ""))
          ELSE IF g.pr.status = PRStatusMerged
          THEN Return(p, ReassignResponse(l0, ErrPRMerged, NoPR, ""))
          ELSE IF ~contains(g.pr.assigned_reviewers, l0.uid)
          THEN Return(p, ReassignResponse(l0, ErrNotAssigned, NoPR, ""))
          ELSE Goto(p, "reassign_getauthor",
                    [l0 EXCEPT !.pr =
                        [g.pr EXCEPT !.assigned_reviewers =
                            RemoveReviewer(g.pr.assigned_reviewers, l0.uid)]])
       /\ UNCHANGED <<users, teams, prs, clock>>

\* author, err := uc.userRepo.GetByID(ctx, pr.AuthorID)
ReassignReviewer_GetAuthor(p) ==
    /\ Resume(p, "reassign_getauthor")
    /\ LET g == UserGetByID(lv[p].pr.author_id) IN
       IF g.err # ""
       THEN Return(p, ReassignResponse(lv[p], ErrNotFound, NoPR, ""))
       ELSE Goto(p, "reassign_list", [lv[p] EXCEPT !.user = g.user])
    /\ UNCHANGED <<users, teams, prs, clock>>

\* mutant of ReassignReviewer_ListTeam: the replacement is not appended to the
\* local copy
ReassignReviewer_ListTeamNoAppend(p) ==
    /\ Resume(p, "reassign_list")
    /\ IF UserListByTeamErr # ""
       THEN Return(p, ReassignResponse(lv[p], ErrNotFound, NoPR, ""))
       ELSE \E teamMembers \in Orders(UserListByTeam(lv[p].user.team_name)) :
         LET newReviewerID == FirstCandidate(teamMembers, lv[p].pr.author_id,
                                             lv[p].pr.assigned_reviewers, lv[p].uid)
         IN  IF newReviewerID = ""
             THEN Return(p, ReassignResponse(lv[p], ErrNoCandidate, NoPR, ""))
             ELSE Goto(p, "reassign_update", [lv[p] EXCEPT !.repl = newReviewerID])
    /\ UNCHANGED <<users, teams, prs, clock>>

\* teamMembers, err := uc.userRepo.ListByTeam(ctx, author.TeamName), the loop
\* that picks the replacement and the append to the local copy
ReassignReviewer_ListTeam(p) ==
    /\ Resume(p, "reassign_list")
    /\ IF UserListByTeamErr # ""
       THEN Return(p, ReassignResponse(lv[p], ErrNotFound, NoPR, ""))
       ELSE \E teamMembers \in Orders(UserListByTeam(lv[p].user.team_name)) :
         LET newReviewerID == FirstCandidate(teamMembers, lv[p].pr.author_id,
                                             lv[p].pr.assigned_reviewers, lv[p].uid)
         IN  IF newReviewerID = ""
             THEN Return(p, ReassignResponse(lv[p], ErrNoCandidate, NoPR, ""))
             ELSE Goto(p, "reassign_update",
                       [lv[p] EXCEPT !.repl = newReviewerID,
                                     !.pr.assigned_reviewers =
                                         Append(@, newReviewerID)])
    /\ UNCHANGED <<users, teams, prs, clock>>

\* mutant of ReassignReviewer_Update: a failed Update still returns the copy
\* changed in memory and the replacement
ReassignReviewer_UpdateReturnsCopy(p) ==
    /\ Resume(p, "reassign_update")
    /\ LET u == PRUpdate(lv[p].pr) IN
       /\ prs' = u.rows
       /\ IF u.err # ""
          THEN Return(p, ReassignResponse(lv[p], u.err, lv[p].pr, lv[p].repl))
          ELSE Commit(p, ReassignResponse(lv[p], "", lv[p].pr, lv[p].repl))
    /\ UNCHANGED <<users, teams, clock>>

\* err = uc.prRepo.Update(ctx, pr)
ReassignReviewer_Update(p) ==
    /\ Resume(p, "reassign_update")
    /\ LET u == PRUpdate(lv[p].pr) IN
       /\ prs' = u.rows
       /\ IF u.err # ""
          THEN Return(p, ReassignResponse(lv[p], u.err, NoPR, ""))
          ELSE Commit(p, ReassignResponse(lv[p], "", lv[p].pr, lv[p].repl))
    /\ UNCHANGED <<users, teams, clock>>

\* ------------------------------------------------------------------ POST /users/deactivateTeam
DeactivateResponse(l, err) ==
    Response("deactivate", l, err,
             IF err = "" THEN StatusOK ELSE StatusInternalServerError, NoPR, "")

\* users, err := uc.userRepo.ListByTeam(ctx, teamName).  The rows come in no
\* specified order: lv[p].list holds the rows the loop has not reached yet,
\* and the order is chosen as the loop goes.
DeactivateTeam_List(p, teamName) ==
    /\ Accept(p)
    /\ LET l0 == [LvNone EXCEPT !.team = teamName]
           list == UserListByTeam(teamName)
       IN  IF UserListByTeamErr # ""
           THEN Return(p, DeactivateResponse(l0, UserListByTeamErr))
           ELSE IF list = {}
           THEN Return(p, DeactivateResponse(l0, ""))
           ELSE Goto(p, "deactivate_update", [l0 EXCEPT !.list = list])
    /\ UNCHANGED <<users, teams, prs, clock>>

\* mutant of DeactivateTeam_Update: the loop returns after its first Update
DeactivateTeam_UpdateFirstOnly(p) ==
    /\ Resume(p, "deactivate_update")
    /\ \E row \in lv[p].list :
         LET u == UserUpdate([row EXCEPT !.is_active = FALSE])
         IN  /\ users' = u.rows
             /\ IF u.err # ""
                THEN Return(p, DeactivateResponse(lv[p], u.err))
                ELSE Commit(p, DeactivateResponse(lv[p], ""))
    /\ UNCHANGED <<teams, prs, clock>>

\* mutant of DeactivateTeam_Update: the loop goes on after a failed Update
DeactivateTeam_UpdateContinues(p) ==
    /\ Resume(p, "deactivate_update")
    /\ \E row \in lv[p].list :
         LET rest == lv[p].list \ {row}
             u    == UserUpdate([row EXCEPT !.is_active = FALSE])
         IN  /\ users' = u.rows
             /\ IF rest = {}
                THEN Commit(p, DeactivateResponse(lv[p], u.err))
                ELSE Goto(p, "deactivate_update", [lv[p] EXCEPT !.list = rest])
    /\ UNCHANGED <<teams, prs, clock>>

\* mutant of DeactivateTeam_Update: the deactivated user is taken off the
\* OPEN pull requests it reviews
DeactivateTeam_UpdateUnassigns(p) ==
    /\ Resume(p, "deactivate_update")
    /\ \E row \in lv[p].list :
         LET user == [row EXCEPT !.is_active = FALSE]
             rest == lv[p].list \ {row}
             u    == UserUpdate(user)
         IN  /\ users' = u.rows
             /\ prs' = {IF r.status = PRStatusOpen
                        THEN [r EXCEPT !.assigned_reviewers =
                                 SelectSeq(@, LAMBDA x : x # row.user_id)]
                        ELSE r : r \in prs}
             /\ IF u.err # ""
                THEN Return(p, DeactivateResponse(lv[p], u.err))
                ELSE IF rest = {}
                THEN Commit(p, DeactivateResponse(lv[p], ""))
                ELSE Goto(p, "deactivate_update", [lv[p] EXCEPT !.list = rest])
    /\ UNCHANGED <<teams, clock>>

\* one iteration of the loop: user.IsActive = false; uc.userRepo.Update(ctx, user)
DeactivateTeam_Update(p) ==
    /\ Resume(p, "deactivate_update")
    /\ \E row \in lv[p].list :
         LET user == [row EXCEPT !.is_active = FALSE]
             rest == lv[p].list \ {row}
             u    == UserUpdate(user)
         IN  /\ users' = u.rows
             /\ IF u.err # ""
                THEN Return(p, DeactivateResponse(lv[p], u.err))
                ELSE IF rest = {}
                THEN Commit(p, DeactivateResponse(lv[p], ""))
                ELSE Goto(p, "deactivate_update", [lv[p] EXCEPT !.list = rest])
    /\ UNCHANGED <<teams, prs, clock>>

\* ------------------------------------------------------------------ POST /users/setIsActive
SetIsActiveResponse(l, code) ==
    Response("setIsActive", l, "", code, NoPR, "")

\* u, err := h.users.GetByID(c.Context(), body.UserID); u.IsActive = body.IsActive
usersSetIsActive_Get(p, userID, isActive) ==
    /\ Accept(p)
    /\ LET l0 == [LvNone EXCEPT !.uid = userID, !.flag = isActive] IN
       /\ LET g == UserGetByID(l0.uid) IN
          IF g.err # ""
          THEN Return(p, SetIsActiveResponse(l0, StatusNotFound))
          ELSE Goto(p, "setactive_update",
                    [l0 EXCEPT !.user = [g.user EXCEPT !.is_active = l0.flag]])
       /\ UNCHANGED <<users, teams, prs, clock>>

\* h.users.Update(c.Context(), u)
usersSetIsActive_Update(p) ==
    /\ Resume(p, "setactive_update")
    /\ LET u == UserUpdate(lv[p].user) IN
       /\ users' = u.rows
       /\ IF u.err # ""
          THEN Return(p, SetIsActiveResponse(lv[p], StatusInternalServerError))
          ELSE Commit(p, SetIsActiveResponse(lv[p], StatusOK))
    /\ UNCHANGED <<teams, prs, clock>>

\* ------------------------------------------------------------------ GET /users/getReview
\* entity.PullRequestShort of a row
PullRequestShort(r) ==
    [pull_request_id   |-> r.pull_request_id,
     pull_request_name |-> r.pull_request_name,
     author_id         |-> r.author_id,
     status            |-> r.status]

GetReviewResponse(l, code, list) ==
    [Response("getReview", l, "", code, NoPR, "")
        EXCEPT !.pull_requests = [i \in DOMAIN list |-> PullRequestShort(list[i])]]

\* prs, err := h.prs.ListByReviewer(c.Context(), id) for a user_id that is
\* not empty, and the loop that builds the short representation
usersGetReview(p, id) ==
    /\ Accept(p)
    /\ LET l0 == [LvNone EXCEPT !.uid = id] IN
       IF down
       THEN Return(p, GetReviewResponse(l0, StatusInternalServerError, <<>>))
       ELSE \E list \in PRListByReviewer(l0.uid) :
               Return(p, GetReviewResponse(l0, StatusOK, list))
    /\ UNCHANGED <<users, teams, prs, clock>>

\* ------------------------------------------------------------------ POST /team/add
TeamAddResponse(l, code) ==
    Response("teamAdd", l, "", code, NoPR, "")

\* a member list, given as its is_active flags by user id and the username
\* of its members
MembersOf(f, username) ==
    {[user_id |-> u, username |-> username, is_active |-> f[u]] : u \in DOMAIN f}

\* h.teams.GetByName(c.Context(), t.TeamName): the team exists when it has members
teamAdd_Get(p, teamName, members) ==
    /\ Accept(p)
    /\ LET l0 == [LvNone EXCEPT !.team = teamName, !.members = members] IN
       /\ IF TeamGetByName(l0.team) = ""
          THEN Return(p, TeamAddResponse(l0, StatusBadRequest))
          ELSE Goto(p, "teamadd_create", l0)
       /\ UNCHANGED <<users, teams, prs, clock>>

\* h.teams.Create(c.Context(), t): one transaction
teamAdd_Create(p) ==
    /\ Resume(p, "teamadd_create")
    /\ IF down \/ lv[p].team \in teams
       THEN /\ Return(p, TeamAddResponse(lv[p], StatusInternalServerError))
            /\ UNCHANGED <<users, teams>>
       ELSE /\ teams' = teams \cup {lv[p].team}
            /\ users' = UpsertMembers(lv[p].team, lv[p].members)
            /\ Commit(p, TeamAddResponse(lv[p], StatusCreated))
    /\ UNCHANGED <<prs, clock>>

\* ------------------------------------------------------------------ GET /stats
RECURSIVE GCD(_, _)
GCD(a, b) == IF b = 0 THEN a ELSE GCD(b, a % b)

RECURSIVE IsPowerOfTwo(_)
IsPowerOfTwo(n) == n = 1 \/ (n > 1 /\ n % 2 = 0 /\ IsPowerOfTwo(n \div 2))

\* mutant of Float64Div: the division is done on the integers
IntegerDiv(a, b) == [num |-> a \div b, den |-> 1, rounded |-> FALSE]

\* float64(a) / float64(b) for b > 0 and counts far below 2^53: both
\* conversions are exact and the quotient is the double nearest to a/b, which
\* is a/b itself only when the denominator of a/b in lowest terms is a power
\* of two.  The value is kept as that fraction and whether it was rounded.
Float64Div(a, b) ==
    LET g == GCD(a, b) IN
    [num |-> a \div g, den |-> b \div g, rounded |-> ~IsPowerOfTwo(b \div g)]

\* totalReviewers += len(pr.AssignedReviewers) over the rows
RECURSIVE TotalReviewers(_)
TotalReviewers(S) ==
    IF S = {} THEN 0
    ELSE LET r == CHOOSE x \in S : TRUE
         IN  Len(r.assigned_reviewers) + TotalReviewers(S \ {r})

\* mutant of GetStats: every user counts as active
GetStatsAllUsersActive(prRows, userRows) ==
    [total_prs    |-> Cardinality(prRows),
     total_users  |-> Cardinality(userRows),
     open_prs     |-> Cardinality({r \in prRows : r.status = PRStatusOpen}),
     merged_prs   |-> Cardinality({r \in prRows : r.status = PRStatusMerged}),
     active_users |-> Cardinality(userRows),
     average_reviewers |->
         IF Cardinality(prRows) > 0
         THEN Float64Div(TotalReviewers(prRows), Cardinality(prRows))
         ELSE Float64Zero]

\* the stats map GetStats builds from the rows of its two reads
GetStats(prRows, userRows) ==
    [total_prs    |-> Cardinality(prRows),
     total_users  |-> Cardinality(userRows),
     open_prs     |-> Cardinality({r \in prRows : r.status = PRStatusOpen}),
     merged_prs   |-> Cardinality({r \in prRows : r.status = PRStatusMerged}),
     active_users |-> Cardinality({u \in userRows : u.is_active}),
     average_reviewers |->
         IF Cardinality(prRows) > 0
         THEN Float64Div(TotalReviewers(prRows), Cardinality(prRows))
         ELSE Float64Zero]

StatsResponse(l, err, stats) ==
    [Response("stats", l, err,
              IF err = "" THEN StatusOK ELSE StatusInternalServerError, NoPR, "")
        EXCEPT !.stats = stats]

\* prs, err := uc.prRepo.ListAll(ctx)
GetStats_ListPRs(p) ==
    /\ Accept(p)
    /\ IF down
       THEN Return(p, StatsResponse(LvNone, PgErrExec, NoStats))
       ELSE Goto(p, "stats_users", [LvNone EXCEPT !.list = prs])
    /\ UNCHANGED <<users, teams, prs, clock>>

\* users, err := uc.userRepo.ListAll(ctx) and the counting loops
GetStats_ListUsers(p) ==
    /\ Resume(p, "stats_users")
    /\ IF down
       THEN Return(p, StatsResponse(lv[p], PgErrExec, NoStats))
       ELSE Return(p, StatsResponse(lv[p], "", GetStats(lv[p].list, users)))
    /\ UNCHANGED <<users, teams, prs, clock>>

\* ------------------------------------------------------------------ specification
\* the request bodies of the concurrent clients: one author, two users whose
\* is_active is set, and teams created empty, with two members or with all
ConcurrentInputs ==
    [names     |-> {"n1"},
     usernames |-> {"a"},
     authors |-> {"u1"},
     olds    |-> UserIds,
     toggled |-> {"u3", "u4"},
     bodies  |-> {[u \in S |-> TRUE] : S \in {{}, {"u1", "u2"}, UserIds}}]

\* the request bodies of the sequential client: every user id, and teams
\* created with any members, of which u4 is inactive
SequentialInputs ==
    [names     |-> {"n1"},
     usernames |-> {"a"},
     authors |-> UserIds,
     olds    |-> UserIds,
     toggled |-> UserIds,
     bodies  |-> {[u \in S |-> u # "u4"] : S \in SUBSET UserIds}]

Init ==
    /\ users = {}
    /\ teams = {}
    /\ prs   = {}
    /\ clock = 0
    /\ nreq  = 0
    /\ pc    = [p \in Procs |-> "idle"]
    /\ lv    = [p \in Procs |-> LvNone]
    /\ res   = NoRes
    /\ down  = FALSE

\* one step of request p; a new request takes its body from the sets of in
Step(p, in) ==
    \/ \E prID \in PRIds, prName \in in.names, authorID \in in.authors :
          CreatePR_GetPR(p, prID, prName, authorID)
    \/ CreatePR_GetAuthor(p)
    \/ CreatePR_ListTeam(p)
    \/ CreatePR_Insert(p)
    \/ \E prID \in PRIds : MergePR_Get(p, prID)
    \/ MergePR_Update(p)
    \/ \E prID \in PRIds, oldUserID \in in.olds : ReassignReviewer_GetPR(p, prID, oldUserID)
    \/ ReassignReviewer_GetAuthor(p)
    \/ ReassignReviewer_ListTeam(p)
    \/ ReassignReviewer_Update(p)
    \/ \E teamName \in TeamNames : DeactivateTeam_List(p, teamName)
    \/ DeactivateTeam_Update(p)
    \/ \E userID \in in.toggled, isActive \in BOOLEAN : usersSetIsActive_Get(p, userID, isActive)
    \/ usersSetIsActive_Update(p)
    \/ \E teamName \in TeamNames, f \in in.bodies, username \in in.usernames :
          teamAdd_Get(p, teamName, MembersOf(f, username))
    \/ teamAdd_Create(p)

\* requests are served concurrently: their storage calls interleave
Next == \E p \in Procs : Step(p, ConcurrentInputs)

Spec == Init /\ [][Next]_vars

\* requests are served one at a time: one client sends a request when it has
\* the response to its previous one
NextSeq == Step("p1", SequentialInputs)

SpecSeq == Init /\ [][NextSeq]_vars

\* the database stops executing statements, or executes them again
Outage ==
    /\ down' = ~down
    /\ UNCHANGED <<users, teams, prs, clock, nreq, pc, lv, res>>

\* the request bodies of the client that meets outages: one author, the
\* reviewers CreatePR can give it, one user whose is_active is set, and teams
\* created with two members or with all
FailureInputs ==
    [names     |-> {"n1"},
     usernames |-> {"a"},
     authors |-> {"u1"},
     olds    |-> {"u2", "u3"},
     toggled |-> {"u3"},
     bodies  |-> {[u \in S |-> TRUE] : S \in {{"u1", "u2"}, UserIds}}]

\* requests are served one at a time while the database comes and goes
NextFail == Step("p1", FailureInputs) \/ Outage

SpecFail == Init /\ [][NextFail]_vars

\* the stores GetStats is read from: up to three pull requests of author u1,
\* each OPEN or MERGED with no, one or two reviewers, and the four users in
\* one team, any of them inactive
StatsPRIds == {"pr1", "pr2", "pr3"}

StatsReviewers == <<<<>>, <<"u2">>, <<"u2", "u3">>>>

\* the pull_request_name the clients give to a pull_request_id
PRName(id) == CASE id = "pr1" -> "n1" [] id = "pr2" -> "n2" [] OTHER -> "n3"

StatsRow(id, k) ==
    [pull_request_id    |-> id,
     pull_request_name  |-> PRName(id),
     author_id          |-> "u1",
     status             |-> IF k <= 3 THEN PRStatusOpen ELSE PRStatusMerged,
     assigned_reviewers |-> StatsReviewers[IF k <= 3 THEN k ELSE k - 3],
     created_at         |-> 1,
     merged_at          |-> IF k <= 3 THEN 0 ELSE 2]

InitStats ==
    /\ users \in {{[user_id |-> u, username |-> "a", team_name |-> "t1",
                      is_active |-> u \in A] : u \in UserIds} : A \in SUBSET UserIds}
    /\ teams = {"t1"}
    /\ prs \in {{StatsRow(id, f[id]) : id \in {i \in StatsPRIds : f[i] > 0}}
                   : f \in [StatsPRIds -> 0..6]}
    /\ clock = 2
    /\ nreq  = 0
    /\ pc    = [p \in Procs |-> "idle"]
    /\ lv    = [p \in Procs |-> LvNone]
    /\ res   = NoRes
    /\ down  = FALSE

\* one client reads the stats while the database comes and goes
NextStats ==
    \/ GetStats_ListPRs("p1")
    \/ GetStats_ListUsers("p1")
    \/ Outage

SpecStats == InitStats /\ [][NextStats]_vars

\* the stores the requests on several pull requests start from: the four
\* users active in one team, and up to two pull requests of author u1: pr1
\* OPEN or MERGED with no, one or two reviewers, pr2 OPEN with two reviewers
\* or MERGED with one
StorePRIds == {"pr1", "pr2"}

StoreShapes == [pr1 |-> 0..6, pr2 |-> {0, 3, 5}]

InitStore ==
    /\ users = {[user_id |-> u, username |-> "a", team_name |-> "t1",
                 is_active |-> TRUE] : u \in UserIds}
    /\ teams = {"t1"}
    /\ prs \in {{StatsRow(id, f[id]) : id \in {i \in StorePRIds : f[i] > 0}}
                   : f \in {g \in [StorePRIds -> 0..6] :
                               \A id \in StorePRIds : g[id] \in StoreShapes[id]}}
    /\ clock = 2
    /\ nreq  = 0
    /\ pc    = [p \in Procs |-> "idle"]
    /\ lv    = [p \in Procs |-> LvNone]
    /\ res   = NoRes
    /\ down  = FALSE

\* one step of request p on one of several pull requests
StepStore(p) ==
    \/ \E prID \in StorePRIds : CreatePR_GetPR(p, prID, PRName(prID), "u1")
    \/ CreatePR_GetAuthor(p)
    \/ CreatePR_ListTeam(p)
    \/ CreatePR_Insert(p)
    \/ \E prID \in StorePRIds : MergePR_Get(p, prID)
    \/ MergePR_Update(p)
    \/ \E prID \in StorePRIds : ReassignReviewer_GetPR(p, prID, "u2")
    \/ ReassignReviewer_GetAuthor(p)
    \/ ReassignReviewer_ListTeam(p)
    \/ ReassignReviewer_Update(p)
    \/ \E id \in {"u2", "u3", "u4"} : usersGetReview(p, id)

\* requests on several pull requests are served concurrently
NextStore == \E p \in Procs : StepStore(p)

SpecStore == InitStore /\ [][NextStore]_vars

\* the request bodies of the clients that change the rosters: teams created
\* with two members or with all, under either of two usernames, and one user
\* whose is_active is set
RosterInputs ==
    [usernames |-> {"a", "b"},
     toggled   |-> {"u1"},
     bodies    |-> {[u \in S |-> TRUE] : S \in {{"u1", "u2"}, UserIds}}]

\* one step of a request p that reads or writes users
StepRoster(p) ==
    \/ \E teamName \in TeamNames : DeactivateTeam_List(p, teamName)
    \/ DeactivateTeam_Update(p)
    \/ \E userID \in RosterInputs.toggled, isActive \in BOOLEAN :
          usersSetIsActive_Get(p, userID, isActive)
    \/ usersSetIsActive_Update(p)
    \/ \E teamName \in TeamNames, f \in RosterInputs.bodies,
          username \in RosterInputs.usernames :
          teamAdd_Get(p, teamName, MembersOf(f, username))
    \/ teamAdd_Create(p)

\* the requests that change the rosters are served concurrently
NextRoster == \E p \in Procs : StepRoster(p)

SpecRoster == Init /\ [][NextRoster]_vars

\* ------------------------------------------------------------------ properties
\* the stored row of a pull request id, and of a user id
Row(prID) ==
    IF PRRowExists(prID) THEN CHOOSE r \in prs : r.pull_request_id = prID ELSE NoPR

UserRow(userID) ==
    IF \E u \in users : u.user_id = userID
    THEN CHOOSE u \in users : u.user_id = userID
    ELSE NoUser

Reviewers(prID) == Range(Row(prID).assigned_reviewers)

\* the users eligible to review the stored pull request prID: members of the
\* author's current team that are active and are not the author
TeamReviewers(authorID) ==
    {u.user_id : u \in {x \in users : /\ x.team_name = UserRow(authorID).team_name
                                       /\ x.is_active
                                       /\ x.user_id # authorID}}

Min(a, b) == IF a < b THEN a ELSE b

\* C1: once a pull request is stored as MERGED, every later state stores it as
\* MERGED with the same assigned_reviewers, whatever requests interleave.
C1_MergedIsTerminal ==
    [][\A r \in prs :
          r.status = PRStatusMerged =>
             \E r2 \in prs' : /\ r2.pull_request_id = r.pull_request_id
                              /\ r2.status = PRStatusMerged
                              /\ r2.assigned_reviewers = r.assigned_reviewers]_vars

\* C2: a CreatePR that succeeds stores an OPEN pull request with min(2, k)
\* distinct reviewers, all of them active members of the author's team other
\* than the author, k being the number of such members.
C2_CreateAssignsReviewers ==
    [][\A p \in Procs :
          (CreatePR_Insert(p) /\ res'.err = "") =>
             LET pr == res'.pr
                 eligible == TeamReviewers(lv[p].uid)
             IN  /\ pr \in prs'
                 /\ pr.pull_request_id = lv[p].id
                 /\ pr.author_id = lv[p].uid
                 /\ pr.status = PRStatusOpen
                 /\ pr.merged_at = 0
                 /\ NoDuplicates(pr.assigned_reviewers)
                 /\ Len(pr.assigned_reviewers) = Min(2, Cardinality(eligible))
                 /\ Range(pr.assigned_reviewers) \subseteq eligible
                 /\ res'.code = StatusCreated]_vars

\* a pull request was created with two reviewers out of a team that also has
\* an inactive member
C2_Witness ==
    /\ res.op = "create" /\ res.err = "" /\ res.pr \in prs
    /\ Len(res.pr.assigned_reviewers) = 2
    /\ \E u \in users : /\ u.team_name = UserRow(res.pr.author_id).team_name
                        /\ ~u.is_active

\* C3: every stored pull request has at most two reviewers, no reviewer
\* twice and never its author among them.
C3_ReviewersWellFormed ==
    \A r \in prs :
        /\ NoDuplicates(r.assigned_reviewers)
        /\ ~contains(r.assigned_reviewers, r.author_id)
        /\ Len(r.assigned_reviewers) <= 2

\* a reassignment has replaced a reviewer of a pull request with two reviewers
C3_Witness ==
    /\ res.op = "reassign" /\ res.err = "" /\ res.pr \in prs
    /\ Len(res.pr.assigned_reviewers) = 2

\* C4: served one at a time, MergePR on a MERGED pull request returns the
\* stored row without error and writes nothing, and a MergePR that stamps the
\* pull request returns the row it stored: the second call returns the
\* merged_at of the first.
C4_MergeIdempotent ==
    [][\A p \in Procs :
          /\ \A prID \in PRIds :
                (MergePR_Get(p, prID) /\ Row(prID).status = PRStatusMerged) =>
                   /\ res' = [proc |-> p, wrote |-> FALSE, op |-> "merge", err |-> "",
                              code |-> StatusOK, pr |-> Row(prID), replaced_by |-> "",
                              stats |-> NoStats, pull_requests |-> <<>>]
                   /\ pc'[p] = "idle"
                   /\ prs' = prs
          /\ (MergePR_Update(p) /\ res'.err = "") =>
                /\ res'.pr \in prs'
                /\ res'.pr.status = PRStatusMerged
                /\ res'.pr.merged_at # 0]_vars

\* a MergePR found the pull request MERGED and returned it
C4_Witness ==
    /\ res.op = "merge" /\ res.err = "" /\ ~res.wrote
    /\ res.pr \in prs /\ res.pr.status = PRStatusMerged /\ res.pr.merged_at # 0

\* C5: a stored merged_at that is not null never changes, whatever requests
\* interleave.
C5_MergedAtStampedOnce ==
    [][\A r \in prs :
          r.merged_at # 0 =>
             \E r2 \in prs' : /\ r2.pull_request_id = r.pull_request_id
                              /\ r2.merged_at = r.merged_at]_vars

\* C6: ReassignReviewer on a stored MERGED pull request fails with PR_MERGED
\* (409) for every oldUserID, and writes nothing.
C6_ReassignOnMergedFails ==
    [][\A p \in Procs, prID \in PRIds, oldUserID \in UserIds :
          (ReassignReviewer_GetPR(p, prID, oldUserID)
              /\ Row(prID).status = PRStatusMerged) =>
             /\ res' = [proc |-> p, wrote |-> FALSE, op |-> "reassign",
                        err |-> ErrPRMerged, code |-> StatusConflict,
                        pr |-> NoPR, replaced_by |-> "",
                        stats |-> NoStats, pull_requests |-> <<>>]
             /\ pc'[p] = "idle"
             /\ prs' = prs]_vars

\* a reassignment was refused on a MERGED pull request that has reviewers
C6_Witness ==
    /\ res.op = "reassign" /\ res.err = ErrPRMerged
    /\ \E r \in prs : r.status = PRStatusMerged /\ r.assigned_reviewers # <<>>

\* C7: ReassignReviewer on a stored OPEN pull request whose reviewers do not
\* include oldUserID fails with NOT_ASSIGNED and writes nothing.
C7_ReassignNotAssignedFails ==
    [][\A p \in Procs, prID \in PRIds, oldUserID \in UserIds :
          (ReassignReviewer_GetPR(p, prID, oldUserID)
              /\ Row(prID).status = PRStatusOpen
              /\ oldUserID \notin Reviewers(prID)) =>
             /\ res' = [proc |-> p, wrote |-> FALSE, op |-> "reassign",
                        err |-> ErrNotAssigned, code |-> StatusConflict,
                        pr |-> NoPR, replaced_by |-> "",
                        stats |-> NoStats, pull_requests |-> <<>>]
             /\ pc'[p] = "idle"
             /\ prs' = prs]_vars

\* a reassignment was refused on an OPEN pull request that has a reviewer
C7_Witness ==
    /\ res.op = "reassign" /\ res.err = ErrNotAssigned
    /\ \E r \in prs : r.status = PRStatusOpen /\ r.assigned_reviewers # <<>>

\* C8: served one at a time, a ReassignReviewer that succeeds stores the
\* reviewers without oldUserID, with every other previous reviewer and with
\* exactly one new one: the returned replacement, an active member of the
\* author's team that is neither the author, nor oldUserID, nor a previous
\* reviewer.
C8_ReassignReplacesOne ==
    [][\A p \in Procs :
          (ReassignReviewer_Update(p) /\ res'.err = "") =>
             LET prID == lv[p].id
                 old  == lv[p].uid
                 before == Reviewers(prID)
                 after  == Range(res'.pr.assigned_reviewers)
                 new    == res'.replaced_by
             IN  /\ res'.pr \in prs'
                 /\ res'.pr.pull_request_id = prID
                 /\ old \in before
                 /\ old \notin after
                 /\ before \ {old} \subseteq after
                 /\ after \ before = {new}
                 /\ NoDuplicates(res'.pr.assigned_reviewers)
                 /\ new \in TeamReviewers(Row(prID).author_id)
                 /\ new # old]_vars

\* a reviewer of a pull request with two reviewers was replaced
C8_Witness ==
    /\ res.op = "reassign" /\ res.err = "" /\ res.wrote /\ res.pr \in prs
    /\ Len(res.pr.assigned_reviewers) = 2
    /\ res.replaced_by \in Range(res.pr.assigned_reviewers)

\* C9: served one at a time, ReassignReviewer of an assigned reviewer of an
\* OPEN pull request fails with NO_CANDIDATE and writes nothing when the
\* author's team has no active member besides the author, oldUserID and the
\* reviewers.
C9_ReassignNoCandidateFails ==
    [][\A p \in Procs :
          (/\ ReassignReviewer_ListTeam(p)
           /\ Row(lv[p].id).status = PRStatusOpen
           /\ lv[p].uid \in Reviewers(lv[p].id)
           /\ TeamReviewers(Row(lv[p].id).author_id)
                 \subseteq Reviewers(lv[p].id) \cup {lv[p].uid}) =>
             /\ res' = [proc |-> p, wrote |-> FALSE, op |-> "reassign",
                        err |-> ErrNoCandidate, code |-> StatusConflict,
                        pr |-> NoPR, replaced_by |-> "",
                        stats |-> NoStats, pull_requests |-> <<>>]
             /\ pc'[p] = "idle"
             /\ prs' = prs]_vars

\* a reassignment found no candidate for an OPEN pull request with two
\* reviewers whose team has an inactive member
C9_Witness ==
    /\ res.op = "reassign" /\ res.err = ErrNoCandidate
    /\ \E r \in prs :
          /\ r.status = PRStatusOpen /\ Len(r.assigned_reviewers) = 2
          /\ \E u \in users : /\ u.team_name = UserRow(r.author_id).team_name
                              /\ ~u.is_active
                              /\ u.user_id \notin Range(r.assigned_reviewers)

\* C10: CreatePR with a stored pull_request_id fails with PRExists (409) and
\* writes nothing, and no two stored rows share a pull_request_id.
C10_CreateExistingFails ==
    [][/\ \A p \in Procs, prID \in PRIds, authorID \in UserIds :
             (CreatePR_GetPR(p, prID, "n1", authorID) /\ PRRowExists(prID)) =>
                /\ res' = [proc |-> p, wrote |-> FALSE, op |-> "create",
                           err |-> ErrPRExists, code |-> StatusConflict,
                           pr |-> NoPR, replaced_by |-> "",
                        stats |-> NoStats, pull_requests |-> <<>>]
                /\ pc'[p] = "idle"
                /\ prs' = prs
       /\ \A r1, r2 \in prs' :
             r1.pull_request_id = r2.pull_request_id => r1 = r2]_vars

\* a CreatePR was refused for a stored pull request
C10_Witness ==
    /\ res.op = "create" /\ res.err = ErrPRExists /\ res.code = StatusConflict
    /\ prs # {}

\* C11: when two CreatePR calls with the same pull_request_id both pass the
\* existence check, the one that inserts second leaves the first row alone
\* and fails with PRExists, answered 409.
C11_RacingCreateFailsPRExists ==
    [][\A p \in Procs :
          (CreatePR_Insert(p) /\ PRRowExists(lv[p].id)) =>
             /\ prs' = prs
             /\ res'.proc = p /\ res'.op = "create"
             /\ res'.err = ErrPRExists
             /\ res'.code = StatusConflict]_vars

\* C12: a CreatePR whose author_id is no stored user fails with NotFound,
\* answered 404, and stores nothing; and the author of every row a step
\* stores is a stored user.
C12_CreateUnknownAuthorFails ==
    [][/\ \A p \in Procs :
             (CreatePR_GetAuthor(p) /\ ~\E u \in users : u.user_id = lv[p].uid) =>
                /\ res' = [proc |-> p, wrote |-> FALSE, op |-> "create",
                           err |-> ErrNotFound, code |-> StatusNotFound,
                           pr |-> NoPR, replaced_by |-> "",
                        stats |-> NoStats, pull_requests |-> <<>>]
                /\ pc'[p] = "idle"
                /\ prs' = prs
       /\ \A r \in prs' \ prs : \E u \in users : u.user_id = r.author_id]_vars

\* a CreatePR was refused for an unknown author while other users are stored
C12_Witness ==
    /\ res.op = "create" /\ res.err = ErrNotFound /\ res.code = StatusNotFound
    /\ users # {}
    /\ prs = {}

\* the roster order the spec asks for: the rows S by ascending user_id
UserOrder == <<"u1", "u2", "u3", "u4">>

RosterOrder(S) ==
    LET ids == SelectSeq(UserOrder, LAMBDA id : \E u \in S : u.user_id = id)
    IN  [i \in 1..Len(ids) |-> CHOOSE u \in S : u.user_id = ids[i]]

\* C13: CreatePR chooses the reviewers, and ReassignReviewer the replacement,
\* that the loop finds first when the team's rows come by ascending user_id,
\* whatever order the membership query returns them in.
C13_SelectionInRosterOrder ==
    [][\A p \in Procs :
          LET roster == RosterOrder(UserListByTeam(lv[p].user.team_name)) IN
          /\ CreatePR_ListTeam(p) =>
                Range(lv'[p].pr.assigned_reviewers) =
                   Range(PickReviewers(roster, lv[p].uid, <<>>))
          /\ (ReassignReviewer_ListTeam(p) /\ pc'[p] = "reassign_update") =>
                lv'[p].repl = FirstCandidate(roster, lv[p].pr.author_id,
                                             lv[p].pr.assigned_reviewers, lv[p].uid)]_vars

\* the row a step leaves stored for a pull request id
RowAfter(prID) == CHOOSE r \in prs' : r.pull_request_id = prID

\* C14: the ReassignReviewer and MergePR calls on one pull request that
\* report success take effect one after another, in the order of their
\* writes: a reassignment stores the reviewers stored just before its write
\* with oldUserID replaced by the returned replacement, on a row that is OPEN
\* and stays OPEN; a merge stores MERGED with the reviewers stored just
\* before its write.
C14_MutationsSerializable ==
    [][\A p \in Procs :
          /\ (ReassignReviewer_Update(p) /\ res'.err = "") =>
                /\ Row(lv[p].id).status = PRStatusOpen
                /\ lv[p].uid \in Reviewers(lv[p].id)
                /\ RowAfter(lv[p].id).status = PRStatusOpen
                /\ Range(RowAfter(lv[p].id).assigned_reviewers) =
                      (Reviewers(lv[p].id) \ {lv[p].uid}) \cup {lv[p].repl}
          /\ (MergePR_Update(p) /\ res'.err = "") =>
                /\ RowAfter(lv[p].id).status = PRStatusMerged
                /\ Range(RowAfter(lv[p].id).assigned_reviewers) =
                      Reviewers(lv[p].id)]_vars

\* C15: when the Update of ReassignReviewer fails, the call returns the error
\* (answered 500) with no pull request and no replacement, and the stored row
\* is the one stored before: oldUserID is assigned, the replacement is not.
C15_ReassignUpdateFailureKeepsRow ==
    [][\A p \in Procs :
          (ReassignReviewer_Update(p) /\ down) =>
             /\ res' = [proc |-> p, wrote |-> FALSE, op |-> "reassign",
                        err |-> PgErrExec, code |-> StatusInternalServerError,
                        pr |-> NoPR, replaced_by |-> "",
                        stats |-> NoStats, pull_requests |-> <<>>]
             /\ pc'[p] = "idle"
             /\ prs' = prs
             /\ lv[p].uid \in Reviewers(lv[p].id)
             /\ lv[p].repl \notin Reviewers(lv[p].id)]_vars

\* the Update of a reassignment failed on an OPEN pull request with two
\* reviewers
C15_Witness ==
    /\ res.op = "reassign" /\ res.err = PgErrExec
    /\ \E r \in prs : r.status = PRStatusOpen /\ Len(r.assigned_reviewers) = 2

\* a user row without its is_active
Membership(u) ==
    [user_id |-> u.user_id, username |-> u.username, team_name |-> u.team_name]

\* C16: served one at a time, a DeactivateTeam that succeeds leaves every
\* user of the team inactive and has changed no user of another team and no
\* team_name; for a team without users it succeeds and changes nothing.
C16_DeactivateTeamDeactivatesAll ==
    [][\A p \in Procs :
          /\ \A teamName \in TeamNames :
                (DeactivateTeam_List(p, teamName) /\ UserListByTeam(teamName) = {}) =>
                   /\ res' = [proc |-> p, wrote |-> FALSE, op |-> "deactivate",
                              err |-> "", code |-> StatusOK,
                              pr |-> NoPR, replaced_by |-> "",
                        stats |-> NoStats, pull_requests |-> <<>>]
                   /\ pc'[p] = "idle"
                   /\ users' = users
          /\ DeactivateTeam_Update(p) =>
                /\ \A u \in users : u.team_name # lv[p].team => u \in users'
                /\ {Membership(u) : u \in users'} = {Membership(u) : u \in users}
                /\ (pc'[p] = "idle" /\ res'.err = "") =>
                      /\ res'.op = "deactivate" /\ res'.code = StatusOK
                      /\ \A u \in users' : u.team_name = lv[p].team => ~u.is_active]_vars

\* a DeactivateTeam succeeded on a team of two users or more while a user of
\* another team is active
C16_Witness ==
    /\ res.op = "deactivate" /\ res.err = "" /\ res.wrote
    /\ \E t \in TeamNames :
          /\ Cardinality(UserListByTeam(t)) >= 2
          /\ \A u \in UserListByTeam(t) : ~u.is_active
          /\ \E u \in users : u.team_name # t /\ u.is_active

\* C17: when an Update of the DeactivateTeam loop fails, the call returns
\* that error at once (answered 500) and nothing is rolled back: the users
\* the loop had reached are inactive, the others are as they were read.
C17_DeactivateTeamFailsFast ==
    [][\A p \in Procs :
          (DeactivateTeam_Update(p) /\ down) =>
             /\ res' = [proc |-> p, wrote |-> FALSE, op |-> "deactivate",
                        err |-> PgErrExec, code |-> StatusInternalServerError,
                        pr |-> NoPR, replaced_by |-> "",
                        stats |-> NoStats, pull_requests |-> <<>>]
             /\ pc'[p] = "idle"
             /\ users' = users
             /\ \A row \in lv[p].list : row \in users'
             /\ \A u \in users' :
                   (u.team_name = lv[p].team
                       /\ \A row \in lv[p].list : row.user_id # u.user_id) =>
                      ~u.is_active]_vars

\* a DeactivateTeam failed after its first Update: of the team u1, u2 one is
\* inactive and one is active
C17_Witness ==
    /\ res.op = "deactivate" /\ res.err = PgErrExec
    /\ UserRow("u1").team_name = UserRow("u2").team_name
    /\ UserRow("u1").is_active # UserRow("u2").is_active

\* C18: GetStats writes nothing and answers with the number of stored pull
\* requests, of stored users, of OPEN and of MERGED pull requests and of
\* active users; open_prs + merged_prs = total_prs.
C18_StatsCountStoredRows ==
    [][\A p \in Procs :
          /\ GetStats_ListPRs(p) => UNCHANGED <<users, teams, prs>>
          /\ GetStats_ListUsers(p) => UNCHANGED <<users, teams, prs>>
          /\ (GetStats_ListUsers(p) /\ ~down) =>
                /\ res'.op = "stats" /\ res'.err = "" /\ res'.code = StatusOK
                /\ res'.stats.total_prs = Cardinality(prs)
                /\ res'.stats.total_users = Cardinality(users)
                /\ res'.stats.open_prs =
                      Cardinality({r \in prs : r.status = PRStatusOpen})
                /\ res'.stats.merged_prs =
                      Cardinality({r \in prs : r.status = PRStatusMerged})
                /\ res'.stats.active_users =
                      Cardinality({u \in users : u.is_active})
                /\ res'.stats.open_prs + res'.stats.merged_prs
                      = res'.stats.total_prs]_vars

\* GetStats answered for a store with OPEN and MERGED pull requests and with
\* active and inactive users
C18_Witness ==
    /\ res.op = "stats" /\ res.err = ""
    /\ res.stats.open_prs >= 1 /\ res.stats.merged_prs >= 1
    /\ res.stats.active_users >= 1
    /\ res.stats.active_users < res.stats.total_users

\* C19: the average_reviewers GetStats answers is 0 when no pull request is
\* stored and otherwise is exactly the sum of the reviewer counts divided by
\* the number of pull requests: average_reviewers * total_prs = the sum.
C19_AverageIsExactRational ==
    [][\A p \in Procs :
          (GetStats_ListUsers(p) /\ ~down) =>
             LET a == res'.stats.average_reviewers IN
             IF prs = {} THEN a = Float64Zero
             ELSE /\ ~a.rounded
                  /\ a.num * Cardinality(prs) = TotalReviewers(prs) * a.den]_vars

\* C19 as amended: the average_reviewers GetStats answers is 0 when no pull
\* request is stored and otherwise is the float64 quotient of the sum of the
\* reviewer counts by the number of pull requests: the double nearest to the
\* exact average, and the exact average itself only when the number of pull
\* requests divides the sum times a power of two.
C19_AverageIsFloat64Quotient ==
    [][\A p \in Procs :
          (GetStats_ListUsers(p) /\ ~down) =>
             LET a == res'.stats.average_reviewers
                 n == Cardinality(prs)
                 sum == TotalReviewers(prs)
             IN  IF prs = {} THEN a = Float64Zero
                 ELSE /\ a.num * n = sum * a.den
                      /\ a.rounded <=> ~\E k \in 0..n : (sum * 2^k) % n = 0]_vars

\* GetStats answered a rounded average for three stored pull requests
C19_Witness ==
    /\ res.op = "stats" /\ res.err = ""
    /\ res.stats.total_prs = 3
    /\ res.stats.average_reviewers.rounded

\* C20: served one at a time, a teamAdd for a team_name that was created
\* before changes no team and no user and is answered 400 TEAM_EXISTS, also
\* when no user has that team_name.
C20_DuplicateTeamRejected ==
    [][\A p \in Procs :
          /\ \A teamName \in TeamNames, f \in SequentialInputs.bodies :
                (teamAdd_Get(p, teamName, MembersOf(f, "a")) /\ teamName \in teams) =>
                   /\ UNCHANGED <<users, teams>>
                   /\ pc'[p] = "idle" =>
                         res'.op = "teamAdd" /\ res'.code = StatusBadRequest
          /\ (teamAdd_Create(p) /\ lv[p].team \in teams) =>
                /\ UNCHANGED <<users, teams>>
                /\ res'.op = "teamAdd" /\ res'.code = StatusBadRequest]_vars

\* C21: when the read of the pull request fails because the database could
\* not execute it, MergePR and ReassignReviewer do not answer NotFound and
\* CreatePR does not go on to read the author: each call ends there, answered
\* 500, and nothing is written.
C21_ReadFailureIsInternal ==
    [][\A p \in Procs, prID \in PRIds :
          /\ (MergePR_Get(p, prID) /\ down) =>
                /\ pc'[p] = "idle"
                /\ res'.err # ErrNotFound
                /\ res'.code = StatusInternalServerError
          /\ \A oldUserID \in UserIds :
                (ReassignReviewer_GetPR(p, prID, oldUserID) /\ down) =>
                   /\ pc'[p] = "idle"
                   /\ res'.err # ErrNotFound
                   /\ res'.code = StatusInternalServerError
          /\ \A authorID \in UserIds :
                (CreatePR_GetPR(p, prID, "n1", authorID) /\ down) =>
                   /\ pc'[p] = "idle"
                   /\ res'.code = StatusInternalServerError]_vars

\* C22: a MergePR that succeeds on an OPEN pull request stores it MERGED with
\* a merged_at that is not null and with the pull_request_id,
\* pull_request_name, author_id, created_at and assigned_reviewers the call
\* read (created_at, name and author being the stored ones); it changes no
\* user, no team and no other pull request.  MergePR on an id that is not
\* stored fails with NotFound (404) and writes nothing.
C22_MergeChangesStatusAndStamp ==
    [][\A p \in Procs :
          /\ (MergePR_Update(p) /\ res'.err = "") =>
                LET read  == lv[p].pr
                    after == RowAfter(lv[p].id)
                IN  /\ after.status = PRStatusMerged
                    /\ after.merged_at # 0
                    /\ after.pull_request_id = read.pull_request_id
                    /\ after.pull_request_name = read.pull_request_name
                    /\ after.author_id = read.author_id
                    /\ after.created_at = read.created_at
                    /\ after.assigned_reviewers = read.assigned_reviewers
                    /\ after.pull_request_name = Row(lv[p].id).pull_request_name
                    /\ after.author_id = Row(lv[p].id).author_id
                    /\ after.created_at = Row(lv[p].id).created_at
                    /\ prs' \ {after} = prs \ {Row(lv[p].id)}
                    /\ UNCHANGED <<users, teams>>
          /\ \A prID \in StorePRIds :
                /\ MergePR_Get(p, prID) => UNCHANGED <<users, teams, prs>>
                /\ (MergePR_Get(p, prID) /\ ~PRRowExists(prID)) =>
                      /\ res' = [proc |-> p, wrote |-> FALSE, op |-> "merge",
                                 err |-> ErrNotFound, code |-> StatusNotFound,
                                 pr |-> NoPR, replaced_by |-> "",
                                 stats |-> NoStats, pull_requests |-> <<>>]
                      /\ pc'[p] = "idle"]_vars

\* a MergePR stored MERGED a pull request with two reviewers while another
\* pull request is stored
C22_Witness ==
    /\ res.op = "merge" /\ res.err = "" /\ res.wrote
    /\ res.pr \in prs /\ Len(res.pr.assigned_reviewers) = 2
    /\ Cardinality(prs) = 2

\* the pull_request_ids a response lists
Listed(r) == {r.pull_requests[i].pull_request_id : i \in DOMAIN r.pull_requests}

\* C23: usersGetReview(u) writes nothing and lists, once each and with their
\* stored name, author and status, exactly the stored pull requests, OPEN or
\* MERGED, whose assigned_reviewers contain u.  Asked right after a CreatePR
\* that succeeded, the list of each chosen reviewer has the new pull request;
\* asked right after a ReassignReviewer(id, old) that succeeded, the list of
\* old (u2 here) does not have the pull request and the list of the
\* replacement has it.
C23_GetReviewListsAssigned ==
    [][\A p \in Procs, u \in UserIds :
          usersGetReview(p, u) =>
             /\ UNCHANGED <<users, teams, prs>>
             /\ res'.op = "getReview" /\ res'.code = StatusOK
             /\ Listed(res') =
                   {r.pull_request_id : r \in {x \in prs : u \in Range(x.assigned_reviewers)}}
             /\ Len(res'.pull_requests) = Cardinality(Listed(res'))
             /\ \A i \in DOMAIN res'.pull_requests :
                   LET short == res'.pull_requests[i]
                       row   == Row(short.pull_request_id)
                   IN  /\ short.pull_request_name = row.pull_request_name
                       /\ short.author_id = row.author_id
                       /\ short.status = row.status
             /\ (res.op = "create" /\ res.wrote /\ u \in Range(res.pr.assigned_reviewers)) =>
                   res.pr.pull_request_id \in Listed(res')
             /\ (res.op = "reassign" /\ res.wrote) =>
                   /\ u = "u2" => res.pr.pull_request_id \notin Listed(res')
                   /\ u = res.replaced_by => res.pr.pull_request_id \in Listed(res')]_vars

\* usersGetReview listed an OPEN and a MERGED pull request, one of them
\* after a reviewer of it was replaced
C23_Witness ==
    /\ res.op = "getReview" /\ res.code = StatusOK
    /\ Len(res.pull_requests) = 2
    /\ res.pull_requests[1].status # res.pull_requests[2].status
    /\ \E r \in prs : /\ r.pull_request_id \in Listed(res)
                       /\ "u2" \notin Range(r.assigned_reviewers)

\* C24: the number of assigned reviewers of a pull request is the number its
\* CreatePR chose: a CreatePR that succeeds stores the reviewers it returns,
\* and no step of any request, whatever requests interleave, changes the
\* length of a stored assigned_reviewers.
C24_ReviewerCountFixed ==
    [][/\ \A r \in prs :
             /\ \E r2 \in prs' : r2.pull_request_id = r.pull_request_id
             /\ Len(RowAfter(r.pull_request_id).assigned_reviewers)
                   = Len(r.assigned_reviewers)
       /\ \A p \in Procs :
             (CreatePR_Insert(p) /\ res'.err = "") =>
                /\ ~PRRowExists(lv[p].id)
                /\ Len(RowAfter(lv[p].id).assigned_reviewers)
                      = Len(res'.pr.assigned_reviewers)]_vars

\* the only reviewer of a pull request was replaced
C24_Witness ==
    /\ res.op = "reassign" /\ res.err = "" /\ res.wrote
    /\ res.pr \in prs
    /\ Len(res.pr.assigned_reviewers) = 1

\* C25: starting from an empty pull_requests table, every stored pull request
\* is MERGED exactly when its merged_at is not null, and is OPEN or MERGED,
\* whatever CreatePR, MergePR and ReassignReviewer calls interleave.
C25_MergedIffStamped ==
    \A r \in prs :
        /\ r.status \in {PRStatusOpen, PRStatusMerged}
        /\ r.status = PRStatusMerged <=> r.merged_at # 0

\* a pull request is stored MERGED after a write of a merge or a
\* reassignment, while another request that read it is about to write it
C25_Witness ==
    /\ res.op \in {"merge", "reassign"} /\ res.err = "" /\ res.wrote
    /\ \E p \in Procs : pc[p] \in {"merge_update", "reassign_update"}
    /\ \E r \in prs : r.status = PRStatusMerged /\ r.merged_at # 0

\* the response of a ReassignReviewer of request p that failed with err
ReassignFailure(p, err, code) ==
    [proc |-> p, wrote |-> FALSE, op |-> "reassign", err |-> err, code |-> code,
     pr |-> NoPR, replaced_by |-> "", stats |-> NoStats, pull_requests |-> <<>>]

\* C26: served one at a time, ReassignReviewer fails with NotFound when the
\* pull request is not stored; else with PRMerged when it is MERGED; else with
\* NotAssigned when oldUserID is not a reviewer; else with NotFound when the
\* lookup of the author finds no user; else with NoCandidate when the
\* author's team has no active member besides the author, oldUserID and the
\* reviewers.  Each failure is the first in that order that applies, and no
\* step before the Update writes.
C26_ReassignFailurePrecedence ==
    [][\A p \in Procs :
          /\ \A prID \in PRIds, oldUserID \in UserIds :
                (ReassignReviewer_GetPR(p, prID, oldUserID) /\ ~down) =>
                   /\ UNCHANGED <<users, teams, prs>>
                   /\ IF ~PRRowExists(prID)
                      THEN res' = ReassignFailure(p, ErrNotFound, StatusNotFound)
                      ELSE IF Row(prID).status = PRStatusMerged
                      THEN res' = ReassignFailure(p, ErrPRMerged, StatusConflict)
                      ELSE IF oldUserID \notin Reviewers(prID)
                      THEN res' = ReassignFailure(p, ErrNotAssigned, StatusConflict)
                      ELSE pc'[p] = "reassign_getauthor" /\ res' = res
          /\ ReassignReviewer_GetAuthor(p) =>
                /\ UNCHANGED <<users, teams, prs>>
                /\ IF down \/ UserRow(Row(lv[p].id).author_id) = NoUser
                   THEN res' = ReassignFailure(p, ErrNotFound, StatusNotFound)
                   ELSE pc'[p] = "reassign_list" /\ res' = res
          /\ (ReassignReviewer_ListTeam(p) /\ ~down) =>
                /\ UNCHANGED <<users, teams, prs>>
                /\ IF TeamReviewers(Row(lv[p].id).author_id)
                         \subseteq Reviewers(lv[p].id) \cup {lv[p].uid}
                   THEN res' = ReassignFailure(p, ErrNoCandidate, StatusConflict)
                   ELSE pc'[p] = "reassign_update" /\ res' = res]_vars

\* a reassignment was refused with PRMerged on a pull request for which no
\* candidate is left either
C26_Witness ==
    /\ res = ReassignFailure("p1", ErrPRMerged, StatusConflict)
    /\ \E r \in prs :
          /\ r.status = PRStatusMerged
          /\ r.assigned_reviewers # <<>>
          /\ TeamReviewers(r.author_id) \subseteq Range(r.assigned_reviewers)

\* C27: no step of DeactivateTeam or of usersSetIsActive changes the table of
\* pull requests: every status and every assigned_reviewers stays, so an OPEN
\* pull request keeps a reviewer that was deactivated.
C27_DeactivationKeepsPRs ==
    [][\A p \in Procs :
          (\/ \E teamName \in TeamNames : DeactivateTeam_List(p, teamName)
           \/ DeactivateTeam_Update(p)
           \/ \E userID \in UserIds, isActive \in BOOLEAN :
                 usersSetIsActive_Get(p, userID, isActive)
           \/ usersSetIsActive_Update(p)) =>
             prs' = prs]_vars

\* a DeactivateTeam succeeded and an OPEN pull request has two reviewers that
\* are inactive
C27_Witness ==
    /\ res.op = "deactivate" /\ res.err = "" /\ res.wrote
    /\ \E r \in prs :
          /\ r.status = PRStatusOpen
          /\ Len(r.assigned_reviewers) = 2
          /\ \A u \in Range(r.assigned_reviewers) : ~UserRow(u).is_active

\* C28: no step of DeactivateTeam changes the username or the team_name of a
\* stored user, whatever teamAdd and usersSetIsActive requests interleave: the
\* rows the loop writes carry the username and team_name stored at that time.
C28_DeactivateTeamKeepsMembership ==
    [][\A p \in Procs :
          DeactivateTeam_Update(p) =>
             {Membership(u) : u \in users'} = {Membership(u) : u \in users}]_vars

====
